---- MODULE Spec2Model ----
(***************************************************************************)
(* Model of the Doubao and Qwen image-generation adapters of               *)
(* src/server/ai/provider (doubao.ts holds both adapters, Doubao at lines  *)
(* 1-182 and Qwen at lines 183-385).                                       *)
(*                                                                         *)
(* One generate call is a small state machine:                             *)
(*   idle -> called -> awaitPost -> fanout -> done                         *)
(* "called" is the invocation, "awaitPost" the await of the vendor POST,   *)
(* "fanout" the await of Promise.all over the per-image work.  The code    *)
(* between two awaits runs without interleaving and is one action.         *)
(*                                                                         *)
(* JavaScript values are modelled as follows: an absent (undefined) or     *)
(* empty string is "", since the code only tests such fields for           *)
(* truthiness; null and undefined, where the code distinguishes them, are  *)
(* the values Null and Undefined; a thrown error is a record               *)
(* [name, status, reason] with status 0 when the error carries none.       *)
(*                                                                         *)
(* The module also models updatePassword of src/server/service/auth and    *)
(* its route (see the section on the password update); its state is        *)
(* authVars, that of the generate calls genVars.                           *)
(***************************************************************************)
EXTENDS Integers, Sequences, FiniteSets, TLC

VARIABLES
    pc,         \* pc[c]: where call c stands
    provider,   \* provider[c]: the adapter the call was made on
    request,    \* request[c]: the GenerationRequest
    settings,   \* settings[c]: the raw settings (a partial map key -> value)
    http,       \* http[c]: the HTTP requests the call has issued, in order
    response,   \* response[c]: what the vendor POST settled with
    work,       \* work[c]: per image entry, the state of its mapper
    outcome,    \* outcome[c]: the settled promise of generate
    descriptor, \* descriptor[p]: the provider object p, shared by all calls
    accounts,   \* the account table: accounts[id] is the row with that id
    at,         \* at[c]: where the POST /settings/updatePassword c stands
    ctx,        \* ctx[c]: the RequestContext of the call, its userId
    passwordReq,        \* passwordReq[c]: the UpdatePasswordRequest
    userAccount,        \* userAccount[c]: the row the select returned
    hashedNewPassword,  \* hashedNewPassword[c]: what hashPassword returned
    passwordResult,     \* passwordResult[c]: the settled promise of updatePassword
    reply       \* reply[c]: the HTTP status the route answered with, 0 before

\* The state of the generate calls and that of the password updates.
genVars == <<pc, provider, request, settings, http, response, work, outcome, descriptor>>

authVars == <<accounts, at, ctx, passwordReq, userAccount, hashedNewPassword, passwordResult,
              reply>>

vars == <<genVars, authVars>>

(***************************************************************************)
(* Bounds of the model.                                                    *)
(***************************************************************************)
\* Longest list of image entries in a vendor response.
MaxEntries == 2

\* The calls of the model; Spec runs call 1 alone.
Calls == {1, 2}

Null == "<null>"
Undefined == "<undefined>"

Providers == {"doubao", "qwen"}

(***************************************************************************)
(* Errors.                                                                 *)
(***************************************************************************)
Err(name, status, reason) == [name |-> name, status |-> status, reason |-> reason]

NoError == Err("", 0, "")

\* new GenError(reason), of @/server/lib/types
GenError(reason) == Err("GenError", 0, reason)

Ok(v) == [ok |-> TRUE, value |-> v, error |-> NoError]

Throw(e) == [ok |-> FALSE, value |-> "", error |-> e]

(***************************************************************************)
(* The static provider descriptors.                                        *)
(***************************************************************************)
doubaoSettingsSchema ==
    << [key |-> "apiKey", type |-> "password", required |-> TRUE, defaultValue |-> ""],
       [key |-> "baseURL", type |-> "url", required |-> FALSE,
        defaultValue |-> "https://ark.cn-beijing.volces.com/api/v3"] >>

qwenSettingsSchema ==
    << [key |-> "apiKey", type |-> "password", required |-> TRUE, defaultValue |-> ""],
       [key |-> "baseURL", type |-> "url", required |-> FALSE,
        defaultValue |-> "https://dashscope.aliyuncs.com/api/v1"] >>

DoubaoAspectRatioSizes ==
    [r \in {"1:1", "16:9", "9:16", "4:3", "3:4"} |->
        CASE r = "1:1" -> "2048x2048"
          [] r = "16:9" -> "2560x1440"
          [] r = "9:16" -> "1440x2560"
          [] r = "4:3" -> "2304x1728"
          [] r = "3:4" -> "1728x2304"]

QwenAspectRatioSizes ==
    [r \in {"1:1", "16:9", "9:16", "4:3", "3:4"} |->
        CASE r = "1:1" -> "1024*1024"
          [] r = "16:9" -> "1792*1024"
          [] r = "9:16" -> "1024*1792"
          [] r = "4:3" -> "1536*1024"
          [] r = "3:4" -> "1024*1536"]

DoubaoModels ==
    << [id |-> "doubao-seedream-4-5-251128", ability |-> "i2i", maxInputImages |-> 14] >>

QwenModels ==
    << [id |-> "qwen-image", ability |-> "i2i", maxInputImages |-> 3],
       [id |-> "qwen-image-max", ability |-> "t2i", maxInputImages |-> 0] >>

Doubao == [id |-> "doubao", settings |-> doubaoSettingsSchema, models |-> DoubaoModels]

Qwen == [id |-> "qwen", settings |-> qwenSettingsSchema, models |-> QwenModels]

ProviderOf(p) == IF p = "doubao" THEN Doubao ELSE Qwen

(***************************************************************************)
(* The helpers of ../types/provider.                                       *)
(***************************************************************************)
\* The first required field of the schema that the raw settings lack, 0 if none.
FirstMissing(raw, schema) ==
    LET bad == {i \in 1..Len(schema) : schema[i].required /\ schema[i].key \notin DOMAIN raw}
    IN IF bad = {} THEN 0 ELSE CHOOSE i \in bad : \A j \in bad : i <= j

\* doParseSettings(settings, schema): every required field present, else
\* ConfigError; every absent optional field takes its default; keys the schema
\* does not name are dropped.
SchemaDefault(schema, k) ==
    LET i == CHOOSE j \in 1..Len(schema) : schema[j].key = k
    IN schema[i].defaultValue

doParseSettings(raw, schema) ==
    IF FirstMissing(raw, schema) # 0
    THEN Throw(Err("ConfigError", 0, ""))
    ELSE Ok([k \in {schema[i].key : i \in 1..Len(schema)} |->
                IF k \in DOMAIN raw THEN raw[k] ELSE SchemaDefault(schema, k)])

\* findModel(provider, modelId): the catalog entry, else NotFoundError.
findModel(prov, modelId) ==
    LET hit == {i \in 1..Len(prov.models) : prov.models[i].id = modelId}
    IN IF hit = {}
       THEN Throw(Err("NotFoundError", 0, ""))
       ELSE Ok(prov.models[CHOOSE i \in hit : \A j \in hit : i <= j])

\* chooseAblility(request, ability): with input images the model's ability
\* must permit image input, else UnsupportedAbilityError; without, t2i.
chooseAblility(req, ability) ==
    IF Len(req.images) > 0
    THEN IF ability = "i2i" THEN Ok("i2i") ELSE Throw(Err("UnsupportedAbilityError", 0, ""))
    ELSE Ok("t2i")

\* Doubao.parseSettings / Qwen.parseSettings
DoubaoParseSettings(raw) == doParseSettings(raw, doubaoSettingsSchema)

QwenParseSettings(raw) == doParseSettings(raw, qwenSettingsSchema)

(***************************************************************************)
(* JSON.stringify of a request body: a key whose value is undefined is     *)
(* left out, a null value is written.  Only the scalar keys of a body can  *)
(* hold undefined.                                                         *)
(***************************************************************************)
ScalarKeys == {"model", "prompt", "text", "size", "response_format", "sequential_image_generation"}

JSONStringify(obj) ==
    [k \in {x \in DOMAIN obj : ~(x \in ScalarKeys /\ obj[x] = Undefined)} |-> obj[k]]

(***************************************************************************)
(* Request construction.                                                   *)
(***************************************************************************)
\* src 62-65: let size = null; if (request.aspectRatio) size = aspectRatioSizes[...]
\* A ratio that is no key of the table reads as undefined.
DoubaoSize(req) ==
    IF req.aspectRatio # ""
    THEN IF req.aspectRatio \in DOMAIN DoubaoAspectRatioSizes
         THEN DoubaoAspectRatioSizes[req.aspectRatio]
         ELSE Undefined
    ELSE Null

\* src 252: request.aspectRatio ? aspectRatioSizes[request.aspectRatio] : "1024*1024"
QwenSize(req) ==
    IF req.aspectRatio # ""
    THEN IF req.aspectRatio \in DOMAIN QwenAspectRatioSizes
         THEN QwenAspectRatioSizes[req.aspectRatio]
         ELSE Undefined
    ELSE "1024*1024"

\* request.n && request.n > 1, with NoN the omitted n
NoN == -1

Batched(req) == req.n # NoN /\ req.n # 0 /\ req.n > 1

Min(a, b) == IF a < b THEN a ELSE b

\* DoubaoRequestBody with the batch count passed on unclamped.
DoubaoRequestBody_NoClamp(req) ==
    [model |-> req.modelId,
     prompt |-> req.prompt,
     size |-> DoubaoSize(req),
     response_format |-> "b64_json",
     sequential_image_generation |-> IF Batched(req) THEN "auto" ELSE "disabled"]
    @@ (IF Batched(req)
        THEN [sequential_image_generation_options |-> [max_images |-> req.n]]
        ELSE <<>>)
    @@ (IF Len(req.images) > 0 THEN [image |-> req.images] ELSE <<>>)

\* src 74-92
DoubaoRequestBody(req) ==
    [model |-> req.modelId,
     prompt |-> req.prompt,
     size |-> DoubaoSize(req),
     response_format |-> "b64_json",
     sequential_image_generation |-> IF Batched(req) THEN "auto" ELSE "disabled"]
    @@ (IF Batched(req)
        THEN [sequential_image_generation_options |-> [max_images |-> Min(req.n, 15)]]
        ELSE <<>>)
    @@ (IF Len(req.images) > 0 THEN [image |-> req.images] ELSE <<>>)

\* src 253-271: the body is flattened, input.messages[0].content[0].text is
\* "text" and parameters.watermark / parameters.size are "watermark" / "size".
QwenRequestBody(req) ==
    [model |-> req.modelId,
     text |-> req.prompt,
     watermark |-> FALSE,
     size |-> QwenSize(req)]

Post(url, apiKey, body) ==
    [method |-> "POST", url |-> url, auth |-> "Bearer " \o apiKey, body |-> JSONStringify(body)]

Get(url) == [method |-> "GET", url |-> url, auth |-> "", body |-> <<>>]

(***************************************************************************)
(* The helpers of @/server/lib/util.                                       *)
(***************************************************************************)
base64ToDataURI(b64) == "data:image/png;base64," \o b64

\* What fetchUrlToDataURI(url) resolves to when the fetch succeeds.
fetchUrlToDataURI(url) == "data:fetched;" \o url

startsWith(s, prefix) == Len(s) >= Len(prefix) /\ SubSeq(s, 1, Len(prefix)) = prefix

(***************************************************************************)
(* Vendor responses.  A body is readable or not (the read of the stream    *)
(* fails), its text parses as JSON or not, and a parsed document carries   *)
(* an error code and, per known shape, a list of image entries.            *)
(***************************************************************************)
\* An image entry; content is message.content, a list of [image, image_url].
Entry(b64_json, url, image_url, base64, content) ==
    [b64_json |-> b64_json, url |-> url, image_url |-> image_url, base64 |-> base64,
     content |-> content]

EntryB64 == Entry("AAAA", "", "", "", <<>>)

EntryUrl == Entry("", "https://cdn/a.png", "", "", <<>>)

EntryNone == Entry("", "", "", "", <<>>)

EntryKinds == {EntryB64, EntryUrl, EntryNone}

RECURSIVE SeqsUpTo(_, _)
SeqsUpTo(S, n) ==
    IF n = 0
    THEN {<<>>}
    ELSE LET shorter == SeqsUpTo(S, n - 1)
         IN shorter \cup {Append(q, e) : q \in {x \in shorter : Len(x) = n - 1}, e \in S}

EntryLists == SeqsUpTo(EntryKinds, MaxEntries)

\* A parsed JSON document: kind "array" (items.top is the array itself) or
\* "object"; items maps each shape the document has to its list of entries.
Doc(kind, code, items) == [kind |-> kind, code |-> code, items |-> items]

EmptyDoc == Doc("object", "", <<>>)

Body(readable, json, doc) == [readable |-> readable, json |-> json, doc |-> doc]

Unreadable == Body(FALSE, FALSE, EmptyDoc)

Malformed == Body(TRUE, FALSE, EmptyDoc)

\* The error code Qwen.generate reads as the content-policy rejection (src 293).
QwenPolicyCode == "InvalidParameter"

ErrorCodes == {"", QwenPolicyCode, "InternalError"}

\* Bodies of an error response, and bodies with image entries; the vendor
\* may send any of them with any status.
ErrBodies ==
    {Unreadable, Malformed} \cup {Body(TRUE, TRUE, Doc("object", code, <<>>)) : code \in ErrorCodes}

OkBodies ==
    {Body(TRUE, TRUE, Doc("object", "", [data |-> l])) : l \in EntryLists}

Bodies == ErrBodies \cup OkBodies

Statuses == {200, 400, 401, 403, 404, 429, 500}

\* response.ok
IsOk(status) == status >= 200 /\ status <= 299

Resp(kind, error, status, body) ==
    [kind |-> kind, error |-> error, status |-> status, body |-> body]

NoResponse == Resp("none", NoError, 0, Unreadable)

\* The errors a rejected fetch may carry.
NetErrors ==
    {Err("TypeError", 0, ""), Err("HTTPError", 401, ""), Err("HTTPError", 404, ""),
     Err("HTTPError", 500, "")}

\* What the vendor POST may settle with.
Responses ==
    {Resp("error", e, 0, Unreadable) : e \in NetErrors}
    \cup {Resp("http", NoError, st, b) : st \in Statuses, b \in Bodies}

(***************************************************************************)
(* The settled promise of generate.                                        *)
(***************************************************************************)
Settled(kind, errorReason, images, error) ==
    [kind |-> kind, errorReason |-> errorReason, images |-> images, error |-> error]

Pending == Settled("pending", "", <<>>, NoError)

\* return { errorReason, images }
Returned(errorReason, images) == Settled("returned", errorReason, images, NoError)

\* throw e, out of generate
Rejected(e) == Settled("rejected", "", <<>>, e)

\* src 170-178
DoubaoCatch(e) ==
    IF e.status = 401 \/ e.status = 404
    THEN Returned("CONFIG_ERROR", <<>>)
    ELSE Rejected(e)

\* QwenCatch with the errorReason left out of the returned result.
QwenCatch_NoReason(e) ==
    IF e.name = "GenError"
    THEN Returned("", <<>>)
    ELSE Rejected(e)

\* src 373-381
QwenCatch(e) ==
    IF e.name = "GenError"
    THEN Returned(e.reason, <<>>)
    ELSE Rejected(e)

(***************************************************************************)
(* generate, up to the await of the vendor POST.  The result names the     *)
(* HTTP requests issued and how generate settled, Pending when it now      *)
(* awaits the POST.                                                        *)
(***************************************************************************)
Step(sent, result) == [sent |-> sent, outcome |-> result]

\* DoubaoStart with the POST issued a second time.
DoubaoStart_Retry(req, raw) ==
    LET parsed == DoubaoParseSettings(raw)
        found == findModel(descriptor["doubao"], req.modelId)
        ability == IF found.ok THEN chooseAblility(req, found.value.ability) ELSE found
        post == Post(parsed.value.baseURL \o "/images/generations",
                     parsed.value.apiKey, DoubaoRequestBody(req))
    IN IF ~parsed.ok
       THEN Step(<<>>, Rejected(parsed.error))
       ELSE IF ~ability.ok
       THEN Step(<<>>, DoubaoCatch(ability.error))
       ELSE Step(<<post, post>>, Pending)

\* src 57-101
DoubaoStart(req, raw) ==
    LET parsed == DoubaoParseSettings(raw)
        found == findModel(descriptor["doubao"], req.modelId)
        ability == IF found.ok THEN chooseAblility(req, found.value.ability) ELSE found
    IN IF ~parsed.ok
       THEN Step(<<>>, Rejected(parsed.error))
       ELSE IF ~ability.ok
       THEN Step(<<>>, DoubaoCatch(ability.error))
       ELSE Step(<<Post(parsed.value.baseURL \o "/images/generations",
                        parsed.value.apiKey, DoubaoRequestBody(req))>>, Pending)

\* QwenStart with the settings read unchecked and the POST issued before
\* the required fields are looked at.
QwenStart_PostFirst(req, raw) ==
    LET parsed == QwenParseSettings(raw)
        apiKey == IF "apiKey" \in DOMAIN raw THEN raw.apiKey ELSE Undefined
        baseURL == IF "baseURL" \in DOMAIN raw THEN raw.baseURL ELSE Undefined
        post == Post(baseURL \o "/services/aigc/multimodal-generation/generation",
                     apiKey, QwenRequestBody(req))
    IN IF ~parsed.ok
       THEN Step(<<post>>, QwenCatch(parsed.error))
       ELSE Step(<<post>>, Pending)

\* src 248-281
QwenStart(req, raw) ==
    LET parsed == QwenParseSettings(raw)
    IN IF ~parsed.ok
       THEN Step(<<>>, QwenCatch(parsed.error))
       ELSE Step(<<Post(parsed.value.baseURL \o "/services/aigc/multimodal-generation/generation",
                        parsed.value.apiKey, QwenRequestBody(req))>>, Pending)

(***************************************************************************)
(* Error classification of a response that is not ok.                      *)
(***************************************************************************)
\* DoubaoNotOk without the branch of status 429.
DoubaoNotOk_No429(status, body) ==
    IF status = 401 \/ status = 404
    THEN Returned("CONFIG_ERROR", <<>>)
    ELSE IF status = 400
    THEN Returned("PROMPT_FLAGGED", <<>>)
    ELSE DoubaoCatch(Err("Error", 0, ""))

\* src 103-126; the body is read with .catch(() => ({})) and, but for the
\* message of the thrown error, not used.
DoubaoNotOk(status, body) ==
    IF status = 401 \/ status = 404
    THEN Returned("CONFIG_ERROR", <<>>)
    ELSE IF status = 429
    THEN Returned("TOO_MANY_REQUESTS", <<>>)
    ELSE IF status = 400
    THEN Returned("PROMPT_FLAGGED", <<>>)
    ELSE DoubaoCatch(Err("Error", 0, ""))

\* QwenNotOk with status 404 left unclassified.
QwenNotOk_No404(status, body) ==
    IF ~body.readable
    THEN QwenCatch(Err("TypeError", 0, ""))
    ELSE IF status = 401
    THEN QwenCatch(GenError("CONFIG_ERROR"))
    ELSE IF status = 429
    THEN QwenCatch(GenError("TOO_MANY_REQUESTS"))
    ELSE IF status = 400 /\ ~body.json
    THEN QwenCatch(Err("SyntaxError", 0, ""))
    ELSE IF status = 400 /\ body.doc.code = QwenPolicyCode
    THEN QwenCatch(GenError("PROMPT_FLAGGED"))
    ELSE QwenCatch(Err("Error", 0, ""))

\* QwenNotOk with the error code read from the wrong field of the body.
QwenNotOk_WrongField(status, body) ==
    IF ~body.readable
    THEN QwenCatch(Err("TypeError", 0, ""))
    ELSE IF status = 401 \/ status = 404
    THEN QwenCatch(GenError("CONFIG_ERROR"))
    ELSE IF status = 429
    THEN QwenCatch(GenError("TOO_MANY_REQUESTS"))
    ELSE IF status = 400 /\ ~body.json
    THEN QwenCatch(Err("SyntaxError", 0, ""))
    ELSE IF status = 400 /\ body.doc.kind = QwenPolicyCode
    THEN QwenCatch(GenError("PROMPT_FLAGGED"))
    ELSE QwenCatch(Err("Error", 0, ""))

\* src 283-298; await response.text() comes first and rejects when the body
\* cannot be read, JSON.parse throws on a text that is no JSON.
QwenNotOk(status, body) ==
    IF ~body.readable
    THEN QwenCatch(Err("TypeError", 0, ""))
    ELSE IF status = 401 \/ status = 404
    THEN QwenCatch(GenError("CONFIG_ERROR"))
    ELSE IF status = 429
    THEN QwenCatch(GenError("TOO_MANY_REQUESTS"))
    ELSE IF status = 400 /\ ~body.json
    THEN QwenCatch(Err("SyntaxError", 0, ""))
    ELSE IF status = 400 /\ body.doc.code = QwenPolicyCode
    THEN QwenCatch(GenError("PROMPT_FLAGGED"))
    ELSE QwenCatch(Err("Error", 0, ""))

(***************************************************************************)
(* Response normalization.                                                 *)
(***************************************************************************)
Has(doc, shape) == shape \in DOMAIN doc.items

\* src 130-139
DoubaoImageData(doc) ==
    IF doc.kind = "array" THEN doc.items.top
    ELSE IF Has(doc, "data") THEN doc.items.data
    ELSE IF Has(doc, "images") THEN doc.items.images
    ELSE IF Has(doc, "output") THEN doc.items.output
    ELSE <<>>

\* A probe order that looks at data before output.
QwenImageData_DataFirst(doc) ==
    IF Has(doc, "data") THEN doc.items.data
    ELSE IF Has(doc, "choices") THEN doc.items.choices
    ELSE IF Has(doc, "out_images") THEN doc.items.out_images
    ELSE IF Has(doc, "images") THEN doc.items.images
    ELSE <<>>

\* src 302-311; "choices" and "out_images" are output.choices and output.images
QwenImageData(doc) ==
    IF Has(doc, "choices") THEN doc.items.choices
    ELSE IF Has(doc, "out_images") THEN doc.items.out_images
    ELSE IF Has(doc, "data") THEN doc.items.data
    ELSE IF Has(doc, "images") THEN doc.items.images
    ELSE <<>>

\* The mapper of one entry, up to its first await: resolved with a value, or
\* awaiting the fetch of a url.
Resolved(value) == [state |-> "done", value |-> value, url |-> ""]

Fetching(url) == [state |-> "pending", value |-> "", url |-> url]

\* A mapper that hands the b64_json field on as it came.
DoubaoMapper_RawB64(image) ==
    IF image.b64_json # "" THEN Resolved(image.b64_json)
    ELSE IF image.url # "" THEN Fetching(image.url)
    ELSE IF image.image_url # "" THEN Fetching(image.image_url)
    ELSE IF image.base64 # "" THEN Resolved(base64ToDataURI(image.base64))
    ELSE Resolved(Undefined)

\* src 143-165
DoubaoMapper(image) ==
    IF image.b64_json # "" THEN Resolved(base64ToDataURI(image.b64_json))
    ELSE IF image.url # "" THEN Fetching(image.url)
    ELSE IF image.image_url # "" THEN Fetching(image.image_url)
    ELSE IF image.base64 # "" THEN Resolved(base64ToDataURI(image.base64))
    ELSE Resolved(Undefined)

\* src 343-366
QwenDirect(image) ==
    IF image.b64_json # "" THEN Resolved(base64ToDataURI(image.b64_json))
    ELSE IF image.url # "" THEN Fetching(image.url)
    ELSE IF image.image_url # "" THEN Fetching(image.image_url)
    ELSE IF image.base64 # "" THEN Resolved(base64ToDataURI(image.base64))
    ELSE Resolved(Undefined)

\* src 318-341, for the first item of message.content that has an image
QwenItem(item) ==
    IF item.image # ""
    THEN IF startsWith(item.image, "http")
         THEN Fetching(item.image)
         ELSE Resolved(base64ToDataURI(item.image))
    ELSE Fetching(item.image_url)

\* src 314-367
QwenMapper(image) ==
    LET hit == {i \in 1..Len(image.content) :
                    image.content[i].image # "" \/ image.content[i].image_url # ""}
    IN IF hit # {}
       THEN QwenItem(image.content[CHOOSE i \in hit : \A j \in hit : i <= j])
       ELSE QwenDirect(image)

\* The GET requests of the mappers that fetch, in entry order.
RECURSIVE Fetches(_)
Fetches(w) ==
    IF w = <<>> THEN <<>>
    ELSE (IF Head(w).state = "pending" THEN <<Get(Head(w).url)>> ELSE <<>>) \o Fetches(Tail(w))

\* results.filter(Boolean)
RECURSIVE FilterBoolean(_)
FilterBoolean(w) ==
    IF w = <<>> THEN <<>>
    ELSE (IF Head(w).value \in {Null, Undefined, ""} THEN <<>> ELSE <<Head(w).value>>)
         \o FilterBoolean(Tail(w))

(***************************************************************************)
(* generate, from the settled POST to the await of Promise.all.  The       *)
(* result names the mappers started and how generate settled, Pending      *)
(* when it now awaits the mappers.                                         *)
(***************************************************************************)
Fan(w, result) == [work |-> w, outcome |-> result]

\* src 94-169
DoubaoOnResponse(resp) ==
    IF resp.kind = "error"
    THEN Fan(<<>>, DoubaoCatch(resp.error))
    ELSE IF ~IsOk(resp.status)
    THEN Fan(<<>>, DoubaoNotOk(resp.status, resp.body))
    ELSE IF ~resp.body.readable
    THEN Fan(<<>>, DoubaoCatch(Err("TypeError", 0, "")))
    ELSE IF ~resp.body.json
    THEN Fan(<<>>, DoubaoCatch(Err("SyntaxError", 0, "")))
    ELSE LET imageData == DoubaoImageData(resp.body.doc)
         IN Fan([i \in 1..Len(imageData) |-> DoubaoMapper(imageData[i])], Pending)

\* src 274-368
QwenOnResponse(resp) ==
    IF resp.kind = "error"
    THEN Fan(<<>>, QwenCatch(resp.error))
    ELSE IF ~IsOk(resp.status)
    THEN Fan(<<>>, QwenNotOk(resp.status, resp.body))
    ELSE IF ~resp.body.readable
    THEN Fan(<<>>, QwenCatch(Err("TypeError", 0, "")))
    ELSE IF ~resp.body.json
    THEN Fan(<<>>, QwenCatch(Err("SyntaxError", 0, "")))
    ELSE LET imageData == QwenImageData(resp.body.doc)
         IN Fan([i \in 1..Len(imageData) |-> QwenMapper(imageData[i])], Pending)

\* A result that takes an empty list of images for a failure.
Collect_EmptyThrows(w) ==
    IF FilterBoolean(w) = <<>>
    THEN Rejected(Err("Error", 0, ""))
    ELSE Returned("", FilterBoolean(w))

\* src 166-169 and 370-372: the result of Promise.all, filtered
Collect(w) == Returned("", FilterBoolean(w))

(***************************************************************************)
(* The inputs of a call.                                                   *)
(***************************************************************************)
ModelIds == {"doubao-seedream-4-5-251128", "qwen-image", "qwen-image-max", "no-such-model"}

\* "" is the omitted ratio, "21:9" a ratio that neither table has
AspectRatios == {"", "1:1", "16:9", "9:16", "4:3", "3:4", "21:9"}

Ns == {NoN, 0, 1, 2, 15, 16}

ImageInputs == {<<>>, <<"data:image/png;base64,IN">>}

Requests ==
    [modelId : ModelIds, prompt : {"a cat"}, aspectRatio : AspectRatios,
     images : ImageInputs, n : Ns]

RawSettings ==
    { <<>>,
      [baseURL |-> "https://proxy/v1"],
      [apiKey |-> "sk-1"],
      [apiKey |-> "sk-1", baseURL |-> "https://proxy/v1", region |-> "cn"] }

(***************************************************************************)
(* The password update of src/server/service/auth/index.ts and its route   *)
(* POST /settings/updatePassword of src/server/api/routes/settings.ts.     *)
(*                                                                         *)
(* One request is a state machine                                          *)
(*   idle -> selecting -> verifying -> hashing -> updating -> returned     *)
(*        -> responded                                                     *)
(* with one position per await of updatePassword; "returned" is the        *)
(* settled promise of updatePassword, "responded" the route's answer.      *)
(* An exception is a record [message]; the account table is a sequence of  *)
(* rows, the id of a row its place.                                        *)
(***************************************************************************)
\* auth/index.ts 10: the length a new password must have
MinNewPassword == 6

MaxNewPassword == 72

\* @/server/lib/auth: the stored form of a password, and its check
hashPassword(password) == "hash:" \o password

verifyPassword(hash, password) == hash = hashPassword(password)

Row(userId, password) == [userId |-> userId, password |-> password]

Users == {"u1", "u2"}

\* The account tables a request may find: no account, a credential account,
\* a social-login account (no password), both, and accounts of two users.
AccountTables ==
    { <<>>,
      <<Row("u1", hashPassword("oldpass"))>>,
      <<Row("u1", Null)>>,
      <<Row("u1", Null), Row("u1", hashPassword("oldpass"))>>,
      <<Row("u1", hashPassword("oldpass")), Row("u2", hashPassword("oldpass"))>> }

CurrentPasswords == {"", "oldpass", "wrong", "newpass1"}

NewPasswords == {"short", "newpass1", "newpass2"}

PasswordReqs == [currentPassword : CurrentPasswords, newPassword : NewPasswords]

\* What an await of the database or of the password library may throw.
Exceptions == {[message |-> "connection lost"], [message |-> ""]}

\* auth/index.ts 8-11
UpdatePasswordSchema(req) ==
    /\ Len(req.currentPassword) >= 1
    /\ Len(req.newPassword) >= MinNewPassword
    /\ Len(req.newPassword) <= MaxNewPassword

\* The promise of updatePassword.
UpdatePasswordResult(kind, success, error, errorCode) ==
    [kind |-> kind, success |-> success, error |-> error, errorCode |-> errorCode]

NoResult == UpdatePasswordResult("pending", FALSE, "", "")

Success == UpdatePasswordResult("returned", TRUE, "", "")

Failure(error, errorCode) == UpdatePasswordResult("returned", FALSE, error, errorCode)

\* A promise of updatePassword that rejects with the error.
Rejection(error) == UpdatePasswordResult("rejected", FALSE, error.message, "")

NoAccount == [id |-> 0, password |-> ""]

\* What the code between two awaits of updatePassword comes to: the await
\* it reaches next, or the result it settles with.
Goes(position) == [at |-> position, result |-> NoResult]

Settles(res) == [at |-> "returned", result |-> res]

\* A catch that hands the exception on.
UpdatePasswordCatch_Rethrow(error) == Settles(Rejection(error))

\* auth/index.ts 81-87
UpdatePasswordCatch(error) ==
    Settles(Failure(IF error.message # "" THEN error.message ELSE "Failed to update password",
                    ""))

\* auth/index.ts 35-59, with the rows the select gave
OnSelected(rows) ==
    IF Len(rows) = 0
    THEN Settles(Failure("Account not found", "accountNotFound"))
    ELSE IF rows[1].password \in {Null, ""}
    THEN Settles(Failure("This account uses social login and cannot change password",
                         "socialLoginCannotChangePassword"))
    ELSE Goes("verifying")

\* The update reached whatever verifyPassword said.
OnVerified_Unchecked(isValidPassword) == Goes("hashing")

\* auth/index.ts 63-71
OnVerified(isValidPassword) ==
    IF ~isValidPassword
    THEN Settles(Failure("Current password is incorrect", "currentPasswordIncorrect"))
    ELSE Goes("hashing")

\* settings.ts 26-44: the status the route answers with
RouteStatus(res) ==
    IF res.kind = "rejected" THEN 500
    ELSE IF ~res.success THEN 400
    ELSE 200

\* No password update is under way.
AuthQuiet ==
    /\ accounts = <<>>
    /\ at = [c \in Calls |-> "unused"]
    /\ ctx = [c \in Calls |-> "u1"]
    /\ passwordReq = [c \in Calls |-> [currentPassword |-> "", newPassword |-> ""]]
    /\ userAccount = [c \in Calls |-> NoAccount]
    /\ hashedNewPassword = [c \in Calls |-> ""]
    /\ passwordResult = [c \in Calls |-> NoResult]
    /\ reply = [c \in Calls |-> 0]

(***************************************************************************)
(* The state machine.                                                      *)
(***************************************************************************)
Init ==
    /\ pc = [c \in Calls |-> IF c = 1 THEN "idle" ELSE "unused"]
    /\ provider = [c \in Calls |-> "doubao"]
    /\ request = [c \in Calls |-> CHOOSE r \in Requests : TRUE]
    /\ settings = [c \in Calls |-> <<>>]
    /\ http = [c \in Calls |-> <<>>]
    /\ response = [c \in Calls |-> NoResponse]
    /\ work = [c \in Calls |-> <<>>]
    /\ outcome = [c \in Calls |-> Pending]
    /\ descriptor = [p \in Providers |-> ProviderOf(p)]
    /\ AuthQuiet

\* generate(request, settings) is called on a provider.
CallWith(c, ps, reqs, raws) ==
    /\ pc[c] = "idle"
    /\ \E p \in ps, req \in reqs, raw \in raws :
          /\ provider' = [provider EXCEPT ![c] = p]
          /\ request' = [request EXCEPT ![c] = req]
          /\ settings' = [settings EXCEPT ![c] = raw]
    /\ pc' = [pc EXCEPT ![c] = "called"]
    /\ UNCHANGED <<http, response, work, outcome, descriptor>>
    /\ UNCHANGED authVars

Call(c) == CallWith(c, Providers, Requests, RawSettings)

StartOf(p, req, raw) == IF p = "doubao" THEN DoubaoStart(req, raw) ELSE QwenStart(req, raw)

OnResponseOf(p, resp) == IF p = "doubao" THEN DoubaoOnResponse(resp) ELSE QwenOnResponse(resp)

\* A generate that consumes the model it found from the provider's list.
Generate_MutatesDescriptor(c) ==
    /\ pc[c] = "called"
    /\ LET s == StartOf(provider[c], request[c], settings[c])
       IN /\ http' = [http EXCEPT ![c] = @ \o s.sent]
          /\ outcome' = [outcome EXCEPT ![c] = s.outcome]
          /\ pc' = [pc EXCEPT ![c] = IF s.outcome = Pending THEN "awaitPost" ELSE "done"]
    /\ descriptor' = [descriptor EXCEPT ![provider[c]].models =
                        IF @ = <<>> THEN @ ELSE Tail(@)]
    /\ UNCHANGED <<provider, request, settings, response, work>>
    /\ UNCHANGED authVars

\* The call runs to its first await, or settles before it.
Generate(c) ==
    /\ pc[c] = "called"
    /\ LET s == StartOf(provider[c], request[c], settings[c])
       IN /\ http' = [http EXCEPT ![c] = @ \o s.sent]
          /\ outcome' = [outcome EXCEPT ![c] = s.outcome]
          /\ pc' = [pc EXCEPT ![c] = IF s.outcome = Pending THEN "awaitPost" ELSE "done"]
    /\ UNCHANGED <<provider, request, settings, response, work, descriptor>>
    /\ UNCHANGED authVars

\* The vendor POST settles and the call runs to the await of Promise.all,
\* every mapper having issued its fetch, or settles before it.
PostSettlesWith(c, resps) ==
    /\ pc[c] = "awaitPost"
    /\ \E resp \in resps :
          LET f == OnResponseOf(provider[c], resp)
          IN /\ response' = [response EXCEPT ![c] = resp]
             /\ work' = [work EXCEPT ![c] = f.work]
             /\ http' = [http EXCEPT ![c] = @ \o Fetches(f.work)]
             /\ outcome' = [outcome EXCEPT ![c] = f.outcome]
             /\ pc' = [pc EXCEPT ![c] = IF f.outcome = Pending THEN "fanout" ELSE "done"]
    /\ UNCHANGED <<provider, request, settings, descriptor>>
    /\ UNCHANGED authVars

PostSettles(c) == PostSettlesWith(c, Responses)

\* A fetch whose failure is not caught by its mapper: it rejects Promise.all
\* and with it the call.
FetchSettles_Throws(c) ==
    /\ pc[c] = "fanout"
    /\ \E i \in 1..Len(work[c]), okay \in BOOLEAN :
          /\ work[c][i].state = "pending"
          /\ work' = [work EXCEPT ![c][i] =
                        Resolved(IF okay THEN fetchUrlToDataURI(work[c][i].url) ELSE Null)]
          /\ IF okay
             THEN UNCHANGED <<pc, outcome>>
             ELSE /\ outcome' = [outcome EXCEPT ![c] = Rejected(Err("FetchError", 0, ""))]
                  /\ pc' = [pc EXCEPT ![c] = "done"]
    /\ UNCHANGED <<provider, request, settings, http, response, descriptor>>
    /\ UNCHANGED authVars

\* One fetch of an image url settles: its mapper resolves with the data URI,
\* or catches the failure and resolves with null.
FetchSettles(c) ==
    /\ pc[c] = "fanout"
    /\ \E i \in 1..Len(work[c]), okay \in BOOLEAN :
          /\ work[c][i].state = "pending"
          /\ work' = [work EXCEPT ![c][i] =
                        Resolved(IF okay THEN fetchUrlToDataURI(work[c][i].url) ELSE Null)]
    /\ UNCHANGED <<pc, provider, request, settings, http, response, outcome, descriptor>>
    /\ UNCHANGED authVars

\* A return that does not await the fan-out in full: it collects what has
\* resolved so far.
Return_Early(c) ==
    /\ pc[c] = "fanout"
    /\ outcome' = [outcome EXCEPT ![c] = Collect(work[c])]
    /\ pc' = [pc EXCEPT ![c] = "done"]
    /\ UNCHANGED <<provider, request, settings, http, response, work, descriptor>>
    /\ UNCHANGED authVars

\* Promise.all resolves once every mapper has, and generate returns.
Return(c) ==
    /\ pc[c] = "fanout"
    /\ \A i \in 1..Len(work[c]) : work[c][i].state = "done"
    /\ outcome' = [outcome EXCEPT ![c] = Collect(work[c])]
    /\ pc' = [pc EXCEPT ![c] = "done"]
    /\ UNCHANGED <<provider, request, settings, http, response, work, descriptor>>
    /\ UNCHANGED authVars

Next ==
    \E c \in Calls :
        \/ Call(c)
        \/ Generate(c)
        \/ PostSettles(c)
        \/ FetchSettles(c)
        \/ Return(c)

Spec == Init /\ [][Next]_vars

(***************************************************************************)
(* Response normalization under a richer vendor: calls with valid inputs,  *)
(* 2xx responses whose documents have one or two shapes and entries with   *)
(* every field the mappers look at.                                        *)
(***************************************************************************)
\* An item of message.content
Item(image, image_url) == [image |-> image, image_url |-> image_url]

EntryImageUrl == Entry("", "", "https://cdn/b.png", "", <<>>)

EntryBase64 == Entry("", "", "", "BBBB", <<>>)

EntryB64AndUrl == Entry("CCCC", "https://cdn/c.png", "", "", <<>>)

EntryUrlAndBase64 == Entry("", "https://cdn/d.png", "", "DDDD", <<>>)

EntryChoiceHttp == Entry("", "", "", "", <<Item("https://cdn/e.png", "")>>)

\* a text item, then an item with a base64 image
EntryChoiceB64 == Entry("", "", "", "", <<Item("", ""), Item("FFFF", "")>>)

EntryChoiceImageUrl == Entry("", "", "", "", <<Item("", "https://cdn/g.png")>>)

NormEntryKinds ==
    {EntryB64, EntryUrl, EntryNone, EntryImageUrl, EntryBase64, EntryB64AndUrl,
     EntryUrlAndBase64, EntryChoiceHttp, EntryChoiceB64, EntryChoiceImageUrl}

NormEntryLists == SeqsUpTo(NormEntryKinds, MaxEntries)

\* The lists of a document that has two shapes.
ShortEntryLists == SeqsUpTo(NormEntryKinds, 1)

\* The shapes of an object; output is an array ("output") or an object with
\* choices or images, never both.
ObjectShapes == {"data", "images", "output", "choices", "out_images"}

ShapePairs ==
    {pr \in ObjectShapes \X ObjectShapes :
        /\ pr[1] # pr[2]
        /\ ~(pr[1] = "output" /\ pr[2] \in {"choices", "out_images"})
        /\ ~(pr[2] = "output" /\ pr[1] \in {"choices", "out_images"})}

NormDocs ==
    {Doc("array", "", [top |-> l]) : l \in NormEntryLists}
    \cup {Doc("object", "", [k \in {sh} |-> l]) : sh \in ObjectShapes, l \in NormEntryLists}
    \cup {Doc("object", "", [k \in {pr[1], pr[2]} |-> IF k = pr[1] THEN l1 ELSE l2] ) :
            pr \in ShapePairs, l1 \in ShortEntryLists, l2 \in ShortEntryLists}
    \cup {EmptyDoc}

NormResponses == {Resp("http", NoError, 200, Body(TRUE, TRUE, d)) : d \in NormDocs}

NormRequests ==
    [modelId : ModelIds, prompt : {"a cat"}, aspectRatio : {""}, images : {<<>>}, n : {NoN}]

CallNorm(c) == CallWith(c, Providers, NormRequests, {[apiKey |-> "sk-1"]})

PostSettlesNorm(c) == PostSettlesWith(c, NormResponses)

NextNorm ==
    \E c \in Calls :
        \/ CallNorm(c)
        \/ Generate(c)
        \/ PostSettlesNorm(c)
        \/ FetchSettles(c)
        \/ Return(c)

SpecNorm == Init /\ [][NextNorm]_vars

(***************************************************************************)
(* Two calls of generate in flight at once, on the same or on different    *)
(* providers, their steps interleaved in every order.                      *)
(***************************************************************************)
ConcRequests ==
    [modelId : {"doubao-seedream-4-5-251128", "qwen-image"}, prompt : {"a cat", "a dog"},
     aspectRatio : {""}, images : {<<>>}, n : {NoN}]

ConcSettings == {[apiKey |-> "sk-1"], [apiKey |-> "sk-2"]}

ConcResponses ==
    {Resp("http", NoError, 200, Body(TRUE, TRUE, Doc("object", "", [data |-> <<e>>]))) :
        e \in {EntryB64, EntryBase64, EntryUrl}}
    \cup {Resp("http", NoError, 401, Malformed), Resp("error", Err("TypeError", 0, ""), 0, Unreadable)}

InitConc ==
    /\ pc = [c \in Calls |-> "idle"]
    /\ provider = [c \in Calls |-> "doubao"]
    /\ request = [c \in Calls |-> CHOOSE r \in Requests : TRUE]
    /\ settings = [c \in Calls |-> <<>>]
    /\ http = [c \in Calls |-> <<>>]
    /\ response = [c \in Calls |-> NoResponse]
    /\ work = [c \in Calls |-> <<>>]
    /\ outcome = [c \in Calls |-> Pending]
    /\ descriptor = [p \in Providers |-> ProviderOf(p)]
    /\ AuthQuiet

CallConc(c) == CallWith(c, Providers, ConcRequests, ConcSettings)

PostSettlesConc(c) == PostSettlesWith(c, ConcResponses)

NextConc ==
    \E c \in Calls :
        \/ CallConc(c)
        \/ Generate(c)
        \/ PostSettlesConc(c)
        \/ FetchSettles(c)
        \/ Return(c)

SpecConc == InitConc /\ [][NextConc]_vars

(***************************************************************************)
(* Two POST /settings/updatePassword requests in flight at once, for the   *)
(* same or for different users, their awaits settling in every order.      *)
(***************************************************************************)
InitAuth ==
    /\ pc = [c \in Calls |-> "unused"]
    /\ provider = [c \in Calls |-> "doubao"]
    /\ request = [c \in Calls |-> CHOOSE r \in Requests : TRUE]
    /\ settings = [c \in Calls |-> <<>>]
    /\ http = [c \in Calls |-> <<>>]
    /\ response = [c \in Calls |-> NoResponse]
    /\ work = [c \in Calls |-> <<>>]
    /\ outcome = [c \in Calls |-> Pending]
    /\ descriptor = [p \in Providers |-> ProviderOf(p)]
    /\ accounts \in AccountTables
    /\ at = [c \in Calls |-> "idle"]
    /\ ctx = [c \in Calls |-> "u1"]
    /\ passwordReq = [c \in Calls |-> [currentPassword |-> "", newPassword |-> ""]]
    /\ userAccount = [c \in Calls |-> NoAccount]
    /\ hashedNewPassword = [c \in Calls |-> ""]
    /\ passwordResult = [c \in Calls |-> NoResult]
    /\ reply = [c \in Calls |-> 0]

\* updatePassword goes on to its next await, or settles.
Move(c, g) ==
    /\ at' = [at EXCEPT ![c] = g.at]
    /\ passwordResult' = [passwordResult EXCEPT ![c] = g.result]

\* settings.ts 22-27 and auth/index.ts 24-33: the validator lets the request
\* through to updatePassword, which issues its select, or answers 400.
PostUpdatePassword(c) ==
    /\ at[c] = "idle"
    /\ \E userId \in Users, req \in PasswordReqs :
          /\ ctx' = [ctx EXCEPT ![c] = userId]
          /\ passwordReq' = [passwordReq EXCEPT ![c] = req]
          /\ IF UpdatePasswordSchema(req)
             THEN /\ at' = [at EXCEPT ![c] = "selecting"]
                  /\ UNCHANGED reply
             ELSE /\ at' = [at EXCEPT ![c] = "responded"]
                  /\ reply' = [reply EXCEPT ![c] = 400]
    /\ UNCHANGED <<accounts, userAccount, hashedNewPassword, passwordResult>>
    /\ UNCHANGED genVars

\* The rows of the user, by id.
Matching(userId) == {id \in 1..Len(accounts) : accounts[id].userId = userId}

\* auth/index.ts 29-33: what select ... where userId ... limit 1 may give,
\* there being no order by
Selected(userId) ==
    IF Matching(userId) = {} THEN {<<>>}
    ELSE {<<[id |-> id, password |-> accounts[id].password]>> : id \in Matching(userId)}

\* auth/index.ts 29-61
SelectSettles(c) ==
    /\ at[c] = "selecting"
    /\ \/ \E rows \in Selected(ctx[c]) :
             /\ Move(c, OnSelected(rows))
             /\ userAccount' = [userAccount EXCEPT ![c] =
                                  IF Len(rows) = 0 THEN NoAccount ELSE rows[1]]
       \/ \E e \in Exceptions :
             /\ Move(c, UpdatePasswordCatch(e))
             /\ UNCHANGED userAccount
    /\ UNCHANGED <<accounts, ctx, passwordReq, hashedNewPassword, reply>>
    /\ UNCHANGED genVars

\* auth/index.ts 61-71
VerifySettles(c) ==
    /\ at[c] = "verifying"
    /\ \/ Move(c, OnVerified(verifyPassword(userAccount[c].password,
                                            passwordReq[c].currentPassword)))
       \/ \E e \in Exceptions : Move(c, UpdatePasswordCatch(e))
    /\ UNCHANGED <<accounts, ctx, passwordReq, userAccount, hashedNewPassword, reply>>
    /\ UNCHANGED genVars

\* auth/index.ts 71-76
HashSettles(c) ==
    /\ at[c] = "hashing"
    /\ \/ /\ hashedNewPassword' = [hashedNewPassword EXCEPT ![c] =
                                      hashPassword(passwordReq[c].newPassword)]
          /\ Move(c, Goes("updating"))
       \/ \E e \in Exceptions :
             /\ Move(c, UpdatePasswordCatch(e))
             /\ UNCHANGED hashedNewPassword
    /\ UNCHANGED <<accounts, ctx, passwordReq, userAccount, reply>>
    /\ UNCHANGED genVars

\* update account set password = ... where id = ...
Updated(table, id, password) == [table EXCEPT ![id].password = password]

\* auth/index.ts 73-80: the update is written and acknowledged, or fails
\* unwritten, or is written and its acknowledgement is lost.
UpdateSettles(c) ==
    /\ at[c] = "updating"
    /\ \/ /\ accounts' = Updated(accounts, userAccount[c].id, hashedNewPassword[c])
          /\ Move(c, Settles(Success))
       \/ \E e \in Exceptions, written \in BOOLEAN :
             /\ accounts' = IF written
                            THEN Updated(accounts, userAccount[c].id, hashedNewPassword[c])
                            ELSE accounts
             /\ Move(c, UpdatePasswordCatch(e))
    /\ UNCHANGED <<ctx, passwordReq, userAccount, hashedNewPassword, reply>>
    /\ UNCHANGED genVars

\* settings.ts 27-44
Respond(c) ==
    /\ at[c] = "returned"
    /\ reply' = [reply EXCEPT ![c] = RouteStatus(passwordResult[c])]
    /\ at' = [at EXCEPT ![c] = "responded"]
    /\ UNCHANGED <<accounts, ctx, passwordReq, userAccount, hashedNewPassword, passwordResult>>
    /\ UNCHANGED genVars

NextAuth ==
    \E c \in Calls :
        \/ PostUpdatePassword(c)
        \/ SelectSettles(c)
        \/ VerifySettles(c)
        \/ HashSettles(c)
        \/ UpdateSettles(c)
        \/ Respond(c)

SpecAuth == InitAuth /\ [][NextAuth]_vars

(***************************************************************************)
(* Vocabulary of the properties.                                           *)
(***************************************************************************)
\* The call has run its synchronous prefix.
Started(c) == pc[c] \in {"awaitPost", "fanout", "done"}

\* The vendor POST of the call settled with an HTTP response of this status.
GotStatus(c, sts) == response[c].kind = "http" /\ response[c].status \in sts

\* The body of the response was delivered (its content is arbitrary).
BodyRead(c) == response[c].body.readable

NumPosts(c) == Cardinality({i \in 1..Len(http[c]) : http[c][i].method = "POST"})

SettingsOk(c) == doParseSettings(settings[c], ProviderOf(provider[c]).settings).ok

ModelKnown(c) == findModel(descriptor[provider[c]], request[c].modelId).ok

DeclaredAbility(c) == findModel(descriptor[provider[c]], request[c].modelId).value.ability

CapabilityOk(c) == ModelKnown(c) /\ chooseAblility(request[c], DeclaredAbility(c)).ok

\* The body carries the vendor's content-policy code.  The Doubao source
\* names no code, so for Doubao every error code stands for it.
CarriesPolicyCode(c) ==
    /\ response[c].body.readable
    /\ response[c].body.json
    /\ IF provider[c] = "qwen"
       THEN response[c].body.doc.code = QwenPolicyCode
       ELSE response[c].body.doc.code # ""

\* The lookup table of an adapter and the size it sends for an omitted ratio.
SizeTable(p) == IF p = "doubao" THEN DoubaoAspectRatioSizes ELSE QwenAspectRatioSizes

VendorDefaultSize(p) == IF p = "doubao" THEN Null ELSE "1024*1024"

\* The fields of the Qwen body that do not hold input images.
QwenOtherFields == {"model", "text", "watermark", "size"}

\* The POST was answered 2xx with a body that parsed as JSON.
Ok2xxJson(c) ==
    /\ response[c].kind = "http"
    /\ IsOk(response[c].status)
    /\ response[c].body.readable
    /\ response[c].body.json

\* The probe order of the shapes, first to last.
ProbeOrder(p) ==
    IF p = "doubao"
    THEN <<"top", "data", "images", "output">>
    ELSE <<"choices", "out_images", "data", "images">>

HasShape(doc, sh) ==
    IF sh = "top" THEN doc.kind = "array"
    ELSE doc.kind = "object" /\ sh \in DOMAIN doc.items

\* The places of the probe order at which the document has a shape.
Matches(p, doc) == {k \in 1..Len(ProbeOrder(p)) : HasShape(doc, ProbeOrder(p)[k])}

\* The entries under the first shape of the probe order the document has.
FirstShapeEntries(p, doc) ==
    IF Matches(p, doc) = {} THEN <<>>
    ELSE LET k == CHOOSE k \in Matches(p, doc) : \A j \in Matches(p, doc) : k <= j
         IN doc.items[ProbeOrder(p)[k]]

\* The entries the call has to normalize.
Entries(c) == FirstShapeEntries(provider[c], response[c].body.doc)

IsImage(v) == v \notin {Null, Undefined, ""}

\* The base64 and the url fields of an entry, and for Qwen those of the
\* items of its message.content.
Base64Fields(p, e) ==
    ({e.b64_json, e.base64}
        \cup (IF p = "qwen"
              THEN {e.content[i].image : i \in {j \in 1..Len(e.content) :
                                                  ~startsWith(e.content[j].image, "http")}}
              ELSE {}))
    \ {""}

UrlFields(p, e) ==
    ({e.url, e.image_url}
        \cup (IF p = "qwen"
              THEN {e.content[i].image : i \in {j \in 1..Len(e.content) :
                                                  startsWith(e.content[j].image, "http")}}
                   \cup {e.content[i].image_url : i \in 1..Len(e.content)}
              ELSE {}))
    \ {""}

Recognized(p, e) == Base64Fields(p, e) \cup UrlFields(p, e) # {}

\* The images an entry can give.
EntryImages(p, e) ==
    {base64ToDataURI(b) : b \in Base64Fields(p, e)}
        \cup {fetchUrlToDataURI(u) : u \in UrlFields(p, e)}

\* The images of the mappers that resolved with one, in entry order.
Kept(w) ==
    LET idx == SelectSeq([i \in 1..Len(w) |-> i], LAMBDA i : IsImage(w[i].value))
    IN [k \in 1..Len(idx) |-> w[idx[k]].value]

NumGets(c) == Cardinality({i \in 1..Len(http[c]) : http[c][i].method = "GET"})

\* Everything a call holds.
CallState(c) ==
    <<pc[c], provider[c], request[c], settings[c], http[c], response[c], work[c], outcome[c]>>

\* What a call was given: the provider, the request and the settings.
CallInputs(c) == <<provider[c], request[c], settings[c]>>

Begun(c) == pc[c] \in {"awaitPost", "fanout", "done"}

\* The passwords an account table starts with.
InitialPasswords == {Null, hashPassword("oldpass")}

\* The currentPassword of the call checks against the hash the call read.
VerifiedOwnRead(c) == verifyPassword(userAccount[c].password, passwordReq[c].currentPassword)

\* The call got as far as its update.
ReachedUpdate(c) == hashedNewPassword[c] # ""

\* updatePassword returned success = false with one of its error codes.
FailedWithCode(c) == passwordResult[c].kind = "returned" /\ passwordResult[c].errorCode # ""

C3_PromptFlaggedOn400WithCode ==
    \A c \in Calls :
        GotStatus(c, {400}) /\ CarriesPolicyCode(c)
            => outcome[c] = Returned("PROMPT_FLAGGED", <<>>)

C3_Witness ==
    \E c \in Calls :
        /\ provider[c] = "qwen"
        /\ GotStatus(c, {400})
        /\ response[c].body.doc.code = QwenPolicyCode
        /\ pc[c] = "done"
        /\ outcome[c].errorReason = "PROMPT_FLAGGED"

(***************************************************************************)
(* C4: for both adapters, every response that is not 2xx, not 401, 404 or  *)
(* 429 and not a 400 carrying the content-policy code makes generate       *)
(* reject with an unclassified error: it never returns a result.           *)
(***************************************************************************)
C4_OtherStatusesReject ==
    \A c \in Calls :
        /\ response[c].kind = "http"
        /\ ~IsOk(response[c].status)
        /\ response[c].status \notin {401, 404, 429}
        /\ ~(response[c].status = 400 /\ CarriesPolicyCode(c))
        => outcome[c].kind = "rejected"

(***************************************************************************)
(* C5: every result returned by either adapter has an empty images list    *)
(* when its errorReason is set, and a result with neither an errorReason   *)
(* nor an image comes only from a 2xx response none of whose entries       *)
(* resolved to an image.                                                   *)
(***************************************************************************)
C5_ErrorReasonExcludesImages ==
    \A c \in Calls :
        outcome[c].kind = "returned"
            => /\ outcome[c].errorReason # "" => outcome[c].images = <<>>
               /\ outcome[c].errorReason = "" /\ outcome[c].images = <<>>
                    => /\ response[c].kind = "http"
                       /\ IsOk(response[c].status)
                       /\ \A i \in 1..Len(work[c]) :
                            work[c][i].value \in {Null, Undefined}

C5_Witness ==
    \E c \in Calls :
        /\ outcome[c].kind = "returned"
        /\ outcome[c].errorReason = ""
        /\ outcome[c].images = <<>>
        /\ Len(work[c]) = 2
        /\ work[c][1].value = Null
        /\ work[c][2].value = Undefined

(***************************************************************************)
(* C6: a generate call sends at most one POST to the vendor, and exactly   *)
(* one once settings resolution and capability resolution have succeeded;  *)
(* however the POST settles (error status, rejected fetch), no second one  *)
(* follows.                                                                *)
(***************************************************************************)
C6_SinglePost ==
    \A c \in Calls :
        /\ NumPosts(c) <= 1
        /\ Started(c) /\ SettingsOk(c) /\ CapabilityOk(c) => NumPosts(c) = 1

C6_Witness ==
    \E c \in Calls :
        /\ pc[c] = "done"
        /\ response[c].kind = "error"
        /\ outcome[c].kind = "rejected"
        /\ SettingsOk(c) /\ CapabilityOk(c)
        /\ NumPosts(c) = 1

(***************************************************************************)
(* C7: for both adapters, raw settings without the required apiKey make    *)
(* generate fail in settings resolution, and the call issues no HTTP       *)
(* request at all, neither the vendor POST nor an image fetch.             *)
(***************************************************************************)
C7_MissingApiKeyNoHttp ==
    \A c \in Calls :
        pc[c] \notin {"unused", "idle", "called"} /\ "apiKey" \notin DOMAIN settings[c]
            => /\ pc[c] = "done"
               /\ outcome[c] = Rejected(Err("ConfigError", 0, ""))
               /\ http[c] = <<>>

C7_Witness ==
    \E c \in Calls :
        /\ provider[c] = "qwen"
        /\ DOMAIN settings[c] = {"baseURL"}
        /\ pc[c] = "done"
        /\ outcome[c].error.name = "ConfigError"
        /\ http[c] = <<>>

(***************************************************************************)
(* C8: for both adapters, a generate call (with valid settings) whose      *)
(* modelId is not in the provider's catalog fails with NotFoundError and   *)
(* goes no further.                                                        *)
(***************************************************************************)
C8_UnknownModelNotFound ==
    \A c \in Calls :
        pc[c] \notin {"unused", "idle", "called"} /\ SettingsOk(c) /\ ~ModelKnown(c)
            => /\ pc[c] = "done"
               /\ outcome[c].kind = "rejected"
               /\ outcome[c].error.name = "NotFoundError"

(***************************************************************************)
(* C9: for both adapters, a generate call (with valid settings) that       *)
(* supplies input images for a model whose declared ability is t2i fails   *)
(* with UnsupportedAbilityError, and a call without input images is never  *)
(* refused for its ability.                                                *)
(***************************************************************************)
C9_ImagesNeedI2I ==
    \A c \in Calls :
        pc[c] \notin {"unused", "idle", "called"} /\ SettingsOk(c) /\ ModelKnown(c)
            => /\ Len(request[c].images) > 0 /\ DeclaredAbility(c) = "t2i"
                    => /\ pc[c] = "done"
                       /\ outcome[c].kind = "rejected"
                       /\ outcome[c].error.name = "UnsupportedAbilityError"
               /\ Len(request[c].images) = 0
                    => outcome[c].error.name # "UnsupportedAbilityError"

(***************************************************************************)
(* C10: for both adapters, the size sent in the request body is the entry  *)
(* of the adapter's lookup table when request.aspectRatio is one of the    *)
(* five supported ratios, and the vendor default (Doubao: null, Qwen:      *)
(* "1024*1024") when aspectRatio is omitted or is no key of the table.     *)
(***************************************************************************)
C10_SizeFromTableOrDefault ==
    \A c \in Calls :
        NumPosts(c) > 0
            => /\ "size" \in DOMAIN http[c][1].body
               /\ http[c][1].body.size =
                    IF request[c].aspectRatio \in DOMAIN SizeTable(provider[c])
                    THEN SizeTable(provider[c])[request[c].aspectRatio]
                    ELSE VendorDefaultSize(provider[c])

(***************************************************************************)
(* C11: in the Doubao request body, for n omitted, 0 or 1 the field        *)
(* sequential_image_generation is "disabled" and there is no               *)
(* sequential_image_generation_options; for every n > 1 it is "auto" and   *)
(* sequential_image_generation_options.max_images is min(n, 15).           *)
(***************************************************************************)
C11_DoubaoBatching ==
    \A c \in Calls :
        provider[c] = "doubao" /\ NumPosts(c) > 0
            => LET body == http[c][1].body
                   n == request[c].n
               IN IF n = NoN \/ n <= 1
                  THEN /\ body.sequential_image_generation = "disabled"
                       /\ "sequential_image_generation_options" \notin DOMAIN body
                  ELSE /\ body.sequential_image_generation = "auto"
                       /\ "sequential_image_generation_options" \in DOMAIN body
                       /\ body.sequential_image_generation_options.max_images =
                            (IF n > 15 THEN 15 ELSE n)

C11_Witness ==
    \E c \in Calls :
        /\ provider[c] = "doubao"
        /\ NumPosts(c) = 1
        /\ request[c].n = 16
        /\ http[c][1].body.sequential_image_generation = "auto"
        /\ http[c][1].body.sequential_image_generation_options.max_images = 15

(***************************************************************************)
(* C12: for both adapters, a non-empty request.images is carried in the    *)
(* vendor request body under the vendor's image field (Doubao: "image"),   *)
(* and a request without images gives a body without an image field.       *)
(***************************************************************************)
C12_ImagesAttached ==
    \A c \in Calls :
        NumPosts(c) > 0
            => LET body == http[c][1].body
               IN IF provider[c] = "doubao"
                  THEN IF Len(request[c].images) > 0
                       THEN "image" \in DOMAIN body /\ body.image = request[c].images
                       ELSE "image" \notin DOMAIN body
                  ELSE (Len(request[c].images) > 0) = (DOMAIN body \ QwenOtherFields # {})
(***************************************************************************)
(* C13: on a 2xx response whose entries include remote URLs of which some  *)
(* fetches fail, generate is never rejected and returns without an         *)
(* errorReason, and images holds exactly the entries that resolved, in     *)
(* order: a failed fetch removes its own entry only.                       *)
(***************************************************************************)
C13_FailedFetchDropsOnlyItsEntry ==
    \A c \in Calls :
        Ok2xxJson(c)
            => /\ outcome[c].kind # "rejected"
               /\ pc[c] = "done"
                    => /\ outcome[c].kind = "returned"
                       /\ outcome[c].errorReason = ""
                       /\ outcome[c].images = Kept(work[c])
                       /\ Len(outcome[c].images) =
                            Cardinality({i \in 1..Len(work[c]) : work[c][i].value # Null
                                                              /\ work[c][i].value # Undefined})

C13_Witness ==
    \E c \in Calls :
        /\ Ok2xxJson(c)
        /\ pc[c] = "done"
        /\ NumGets(c) = 2
        /\ \E i, j \in 1..Len(work[c]) :
              /\ work[c][i].value = Null
              /\ work[c][j].value = fetchUrlToDataURI(Entries(c)[j].url)
        /\ outcome[c] = Returned("", <<fetchUrlToDataURI("https://cdn/a.png")>>)

(***************************************************************************)
(* C14: the fan-out of a call is awaited in full.  Whatever the order in   *)
(* which the fetches complete, generate returns only once every mapper     *)
(* has settled, and the returned images are the subsequence of the         *)
(* response's entries that resolved, each image made from the entry at     *)
(* its place, in the original entry order and without null or undefined    *)
(* placeholders.                                                           *)
(***************************************************************************)
C14_FanOutAwaitedInOrder ==
    \A c \in Calls :
        Ok2xxJson(c) /\ pc[c] = "done"
            => LET es == Entries(c)
                   p == provider[c]
                   keep == {i \in 1..Len(es) : IsImage(work[c][i].value)}
               IN /\ Len(work[c]) = Len(es)
                  /\ \A i \in 1..Len(es) : work[c][i].state = "done"
                  /\ \A i \in keep : work[c][i].value \in EntryImages(p, es[i])
                  /\ \A i \in (1..Len(es)) \ keep :
                        UrlFields(p, es[i]) # {} \/ ~Recognized(p, es[i])
                  /\ outcome[c].kind = "returned"
                  /\ Len(outcome[c].images) = Cardinality(keep)
                  /\ \A k \in 1..Len(outcome[c].images) :
                        /\ IsImage(outcome[c].images[k])
                        /\ \E i \in keep :
                              /\ Cardinality({j \in keep : j < i}) = k - 1
                              /\ outcome[c].images[k] = work[c][i].value

C14_Witness ==
    \E c \in Calls :
        /\ Ok2xxJson(c)
        /\ pc[c] = "done"
        /\ NumGets(c) = 2
        /\ Len(outcome[c].images) = 2
        /\ outcome[c].images[1] = fetchUrlToDataURI(Entries(c)[1].url)
        /\ outcome[c].images[2] = fetchUrlToDataURI(Entries(c)[2].image_url)

(***************************************************************************)
(* C15: when a 2xx response has more than one known shape, the entries are *)
(* those of the first shape in the adapter's probe order (Doubao: top      *)
(* array, data, images, output; Qwen: output.choices, output.images, data, *)
(* images): one mapper per entry of that shape, the fetches are those of   *)
(* its entries, and nothing of a later shape is used.                      *)
(***************************************************************************)
C15_FirstShapeWins ==
    \A c \in Calls :
        Ok2xxJson(c)
            => LET es == Entries(c)
                   p == provider[c]
               IN /\ Len(work[c]) = Len(es)
                  /\ NumGets(c) =
                        Cardinality({i \in 1..Len(es) :
                            \/ work[c][i].state = "pending"
                            \/ work[c][i].value = Null
                            \/ \E u \in UrlFields(p, es[i]) :
                                  work[c][i].value = fetchUrlToDataURI(u)})
                  /\ \A i \in 1..Len(es) :
                        /\ work[c][i].url \in UrlFields(p, es[i]) \cup {""}
                        /\ IsImage(work[c][i].value)
                              => work[c][i].value \in EntryImages(p, es[i])
                  /\ \A k \in 2..Len(http[c]) :
                        \E i \in 1..Len(es) : http[c][k].url \in UrlFields(p, es[i])
                  /\ pc[c] = "done"
                        => \A k \in 1..Len(outcome[c].images) :
                              \E i \in 1..Len(es) :
                                 outcome[c].images[k] \in EntryImages(p, es[i])

C15_Witness ==
    \E c \in Calls :
        /\ Ok2xxJson(c)
        /\ pc[c] = "done"
        /\ Cardinality(Matches(provider[c], response[c].body.doc)) = 2
        /\ Len(outcome[c].images) = 1
        /\ \E sh \in DOMAIN response[c].body.doc.items :
              /\ response[c].body.doc.items[sh] # Entries(c)
              /\ response[c].body.doc.items[sh] # <<>>

(***************************************************************************)
(* C16: for every entry, base64 comes before the remote URL: an entry that *)
(* carries a base64 field and a URL field is resolved from the base64      *)
(* field without a fetch, so it gives an image even if its URL cannot be   *)
(* reached; an entry with no recognized field is absent from the result.   *)
(***************************************************************************)
C16_Base64BeforeUrl ==
    \A c \in Calls :
        Ok2xxJson(c) /\ pc[c] \in {"fanout", "done"}
            => LET es == Entries(c)
                   p == provider[c]
               IN \A i \in 1..Len(es) :
                     /\ Base64Fields(p, es[i]) # {}
                          => /\ work[c][i].state = "done"
                             /\ \E b \in Base64Fields(p, es[i]) :
                                   work[c][i].value = base64ToDataURI(b)
                             /\ \A k \in 1..Len(http[c]) :
                                   http[c][k].url \notin UrlFields(p, es[i])
                     /\ ~Recognized(p, es[i])
                          => work[c][i].state = "done" /\ ~IsImage(work[c][i].value)

C19_ThrownErrorsAtOuterCatch ==
    \A c \in Calls :
        pc[c] = "done"
            => /\ response[c].kind = "error"
                    => IF response[c].error.status \in {401, 404}
                       THEN outcome[c] = Returned("CONFIG_ERROR", <<>>)
                       ELSE outcome[c] = Rejected(response[c].error)
               /\ GotStatus(c, {200}) /\ ~response[c].body.readable
                    => outcome[c] = Rejected(Err("TypeError", 0, ""))
               /\ GotStatus(c, {200}) /\ response[c].body.readable /\ ~response[c].body.json
                    => outcome[c] = Rejected(Err("SyntaxError", 0, ""))

(***************************************************************************)
(* C20: calls of generate are isolated.  With calls in flight at once on   *)
(* the same provider object, a step of one call changes nothing another    *)
(* call holds; the request body of a call is determined by its own         *)
(* request and settings, its result by these and the vendor's responses    *)
(* to it; and the provider descriptors (id, models, settings schema) are   *)
(* the same after any sequence of calls.                                   *)
(***************************************************************************)
C20_CallsIsolated ==
    /\ [](/\ descriptor = [p \in Providers |-> ProviderOf(p)]
          /\ \A c, d \in Calls :
                CallInputs(c) = CallInputs(d) /\ Begun(c) /\ Begun(d)
                    => /\ Len(http[c]) > 0 <=> Len(http[d]) > 0
                       /\ Len(http[c]) > 0 => http[c][1] = http[d][1]
                       /\ /\ response[c] = response[d]
                          /\ work[c] = work[d]
                          /\ pc[c] = "done" /\ pc[d] = "done"
                          => outcome[c] = outcome[d])
    /\ [][/\ descriptor' = descriptor
          /\ \E c \in Calls : \A d \in Calls \ {c} : CallState(d)' = CallState(d)]_vars

C20_Witness ==
    /\ provider[1] = provider[2]
    /\ request[1] # request[2]
    /\ settings[1] # settings[2]
    /\ pc[1] = "fanout" /\ pc[2] = "awaitPost"
    /\ NumGets(1) = 1
    /\ http[1][1].body # http[2][1].body
    /\ http[1][1].auth # http[2][1].auth

(***************************************************************************)
(* C21: the classification of a vendor response with status 401, 404 or    *)
(* 429 depends on the status alone: whether the error body is JSON, is     *)
(* malformed, is empty or cannot be read, 401 and 404 give CONFIG_ERROR    *)
(* and 429 gives TOO_MANY_REQUESTS, for both adapters, and the call is     *)
(* not rejected.                                                           *)
(***************************************************************************)
C21_ClassifiedByStatusAlone ==
    \A c \in Calls :
        pc[c] = "done"
            => /\ GotStatus(c, {401, 404}) => outcome[c] = Returned("CONFIG_ERROR", <<>>)
               /\ GotStatus(c, {429}) => outcome[c] = Returned("TOO_MANY_REQUESTS", <<>>)

(***************************************************************************)
(* C22: updatePassword writes the stored password only after               *)
(* verifyPassword has succeeded on the hash it read.  A step that changes  *)
(* the account table is the update of a call whose currentPassword         *)
(* verified, and writes the hash of its newPassword to the row it read; a  *)
(* call that ends with success = false by accountNotFound,                 *)
(* socialLoginCannotChangePassword, currentPasswordIncorrect or an         *)
(* exception raised before the update never reached the update and leaves  *)
(* the table as it was.                                                    *)
(***************************************************************************)
C22_WriteOnlyAfterVerify ==
    /\ [](/\ \A c \in Calls :
                /\ FailedWithCode(c) => ~ReachedUpdate(c)
                /\ ReachedUpdate(c) => VerifiedOwnRead(c)
          /\ \A id \in 1..Len(accounts) :
                accounts[id].password \notin InitialPasswords
                    => \E c \in Calls :
                          /\ ReachedUpdate(c)
                          /\ userAccount[c].id = id
                          /\ accounts[id].password = hashPassword(passwordReq[c].newPassword))
    /\ [][/\ accounts' # accounts
               => \E c \in Calls :
                     /\ at[c] = "updating" /\ at'[c] = "returned"
                     /\ VerifiedOwnRead(c)
                     /\ accounts' = Updated(accounts, userAccount[c].id,
                                            hashPassword(passwordReq[c].newPassword))
          /\ \A c \in Calls :
                at[c] \in {"idle", "selecting", "verifying", "hashing"} /\ at'[c] # at[c]
                    => accounts' = accounts]_vars

C22_Witness ==
    \E c, d \in Calls :
        /\ at[c] = "responded"
        /\ passwordResult[c] = Failure("Current password is incorrect", "currentPasswordIncorrect")
        /\ passwordReq[c].currentPassword = "wrong"
        /\ accounts[userAccount[c].id].password = hashPassword("oldpass")
        /\ at[d] = "responded"
        /\ ctx[d] = ctx[c]
        /\ passwordResult[d].kind = "returned" /\ ~passwordResult[d].success
        /\ passwordResult[d].errorCode = ""
        /\ ~ReachedUpdate(d)

(***************************************************************************)
(* C23: updatePassword is atomic against concurrent calls for the same     *)
(* user.  In every interleaving of two calls, a call returns success only  *)
(* if its currentPassword checks against the password stored at the        *)
(* moment of its own write, so two calls that both present the old         *)
(* password never both return success.                                     *)
(***************************************************************************)
C23_AtomicAgainstConcurrentCalls ==
    /\ [](\A c, d \in Calls :
             /\ c # d
             /\ passwordResult[c].success /\ passwordResult[d].success
             /\ userAccount[c].id = userAccount[d].id
             => ~(/\ passwordReq[c].currentPassword = "oldpass"
                  /\ passwordReq[d].currentPassword = "oldpass"))
    /\ [][\A c \in Calls :
             at[c] = "updating" /\ passwordResult'[c].success
                 => verifyPassword(accounts[userAccount[c].id].password,
                                   passwordReq[c].currentPassword)]_vars

(***************************************************************************)
(* C24: updatePassword never rejects: an exception of the database, of     *)
(* verifyPassword or of hashPassword is caught and returned as success =   *)
(* false.  So the route answers 200 exactly when success is true, 400 for  *)
(* every failure of the service, database errors included, and never 500.  *)
(***************************************************************************)
C24_NeverRejects ==
    \A c \in Calls :
        /\ passwordResult[c].kind # "rejected"
        /\ reply[c] # 500
        /\ reply[c] = 200 <=> at[c] = "responded" /\ passwordResult[c].success
        /\ at[c] = "responded" /\ ~passwordResult[c].success => reply[c] = 400
        /\ at[c] \in {"returned", "responded"} /\ passwordResult[c].kind = "pending"
              => ~UpdatePasswordSchema(passwordReq[c])

C24_Witness ==
    \E c \in Calls :
        /\ at[c] = "responded"
        /\ passwordResult[c] = Failure("connection lost", "")
        /\ userAccount[c] = NoAccount
        /\ reply[c] = 400

====
